---- MODULE Spec2Model ----
(***************************************************************************)
(* Model of src/main.cpp: the Hoare-style partition, the sequential        *)
(* quicksort, the fork-join parallelQuicksort built on tbb::parallel_invoke *)
(* and the part of main that runs both sorts on copies of the same data.   *)
(*                                                                         *)
(* Positions are 1-based: the iterator v.begin() is position 1 and v.end() *)
(* is Len(v) + 1, so a half-open range [b, e) holds positions b .. e-1.    *)
(* A thread is named by its path in the task tree (<<>> is the thread that *)
(* runs main); each thread has a call stack of frames, and every step of a *)
(* thread is one dereference, one exchange, one call or one return.        *)
(***************************************************************************)
EXTENDS Integers, Sequences, FiniteSets, TLC

\* ------------------------------------------------------------------ bounds
MaxLen == 3
MaxVal == 3
MaxG == 2

Values == 1..MaxVal
Inputs == UNION {[1..n -> Values] : n \in 0..MaxLen}

VARIABLES
    a,          \* the vector being sorted (`sorted` in main, the range of partition)
    input,      \* `data` in main: the vector before the sort
    G,          \* the template argument `granularity` of the top-level call
    D,          \* the default of `granularity` (line 98), which every call that
                \* names no template argument gets
    phase,      \* where main (or the single partition call) is
    threads,    \* task path -> [b, e, stack, touched, log]
    seqResult,  \* what quicksort left in `sorted`, kept for the comparison
    seqLog,     \* the partitions and exchanges quicksort made
    pcall,      \* arguments of a direct call of partition
    pret,       \* value returned by a direct call of partition
    ub          \* a cursor was dereferenced outside the vector: undefined
                \* behaviour, after which the model says nothing and stops

vars == <<a, input, G, D, phase, threads, seqResult, seqLog, pcall, pret, ub>>

root == <<>>

\* ------------------------------------------------------------ pure helpers
Frame(fn, b, e, ref) ==
    [fn |-> fn, b |-> b, e |-> e, pc |-> "entry", ref |-> ref, l |-> 0, r |-> 0, m |-> 0]

Thread(fn, b, e, ref) ==
    [b |-> b, e |-> e, stack |-> <<Frame(fn, b, e, ref)>>, touched |-> {}, log |-> <<>>]

Top(t) == threads[t].stack[Len(threads[t].stack)]

HasTop(t, fn, pc) ==
    /\ threads[t].stack # <<>>
    /\ Top(t).fn = fn
    /\ Top(t).pc = pc

Pop(s) == SubSeq(s, 1, Len(s) - 1)

SetTop(s, f) == [s EXCEPT ![Len(s)] = f]

\* a call returns: its frame goes, and so does every caller whose last
\* statement was that call (pc "ret": nothing left to run but the return)
RECURSIVE Unwind(_)
Unwind(s) ==
    IF s # <<>> /\ s[Len(s)].pc = "ret" THEN Unwind(Pop(s)) ELSE s

ReturnFrom(s) == Unwind(Pop(s))

\* an exchange that loses one of the two values
SwapElemsLost(arr, i, j) == [arr EXCEPT ![i] = arr[j]]

\* std::iter_swap(l, r)
SwapElems(arr, i, j) == [arr EXCEPT ![i] = arr[j], ![j] = arr[i]]

\* the comparison turned round
LeftGoesOnReversed(v, ref) == v > ref

\* `*l < ref`: the left cursor goes on
LeftGoesOn(v, ref) == v < ref

\* the right cursor also passing the elements equal to the pivot
RightGoesOnEqual(v, ref) == v >= ref

\* `*r > ref`: the right cursor goes on
RightGoesOn(v, ref) == v > ref

\* a guard that takes only begin = end for an empty range
EmptyRangeOnlyEqual(b, e) == b = e

\* `begin >= end`: partition has nothing to do
EmptyRange(b, e) == b >= e

\* cursors that have met not taken as crossed
CrossedStrict(l, r) == l > r

\* `l >= r`: the cursors have met or crossed
Crossed(l, r) == l >= r

\* the left cursor returned instead of the right one
SplitOfLeft(l, r) == l

\* `return r`
SplitOf(l, r) == r

\* `begin + (end - begin) / 2` in quicksort
QsPivotPos(b, e) == b + ((e - b) \div 2)

\* the first element taken as pivot
PqsPivotPosFirst(b, e) == b

\* `begin + (end - begin) / 2` in parallelQuicksort
PqsPivotPos(b, e) == b + ((e - b) \div 2)

\* the split position kept in the left subrange
QsSubrangesInclusive(b, m, e) == << <<b, m + 1>>, <<m + 1, e>> >>

\* the recursion of a partition that puts the pivot at the split
QsSubrangesAroundSplit(b, m, e) == << <<b, m - 1>>, <<m + 1, e>> >>

\* quicksort(begin, m); quicksort(m + 1, end)
QsSubranges(b, m, e) == << <<b, m>>, <<m + 1, e>> >>

\* the second lambda a copy of the first
PqsSubrangesCopied(b, m, e) == << <<b, m>>, <<b, m>> >>

\* the two lambdas handed to tbb::parallel_invoke
PqsSubranges(b, m, e) == << <<b, m>>, <<m + 1, e>> >>

\* a strict comparison with the granularity
ShouldDelegateStrict(b, e, g) == e - b < g

\* `end - begin <= granularity`
ShouldDelegate(b, e, g) == e - b <= g

\* the granularity a call is instantiated with: the top-level call has the
\* caller's template argument; the calls in the lambdas (lines 110, 113) name
\* no template argument, so theirs is the default
Granularity(t) == IF t = root THEN G ELSE D

Kids(t) == {Append(t, 1), Append(t, 2)}

Returned(t) == threads[t].stack = <<>>

\* a join that waits for one of the two functions only
JoinReadyEither(t) == \E k \in Kids(t) : k \in DOMAIN threads /\ Returned(k)

\* tbb::parallel_invoke returns once both functions have returned
JoinReady(t) == \A k \in Kids(t) : k \in DOMAIN threads /\ Returned(k)

\* one step of thread t: new stack, positions dereferenced, events recorded
Upd(t, stk, pos, evs) ==
    [threads EXCEPT ![t] = [@ EXCEPT !.stack = stk,
                                     !.touched = @ \cup pos,
                                     !.log = @ \o evs]]

\* the stack of t once the partition frame on top has returned v to its caller
AfterPartition(t, v) ==
    LET s == Pop(threads[t].stack) IN
    IF s = <<>> THEN s ELSE SetTop(s, [s[Len(s)] EXCEPT !.m = v])

\* the caller's frame f (already moved to pc `next`) calls ::partition(b, e, a[p])
CallPartition(t, f, p, next) ==
    LET ref == a[p] IN
    Upd(t, Append(SetTop(threads[t].stack, [f EXCEPT !.pc = next, !.ref = ref]),
                  Frame("partition", f.b, f.e, ref)),
        {p}, << <<"partition", f.b, f.e, ref>> >>)

\* ------------------------------------------------------------------- Init
\* main's copy of the data and its quicksort call.  The parallelQuicksort call
\* that follows names no template argument (G = D, as line 141 does) or names
\* the largest granularity of the model.
Init ==
    /\ input \in Inputs
    /\ D \in 1..MaxG
    /\ G \in {D, MaxG}
    /\ a = input
    /\ phase = "seq"
    /\ threads = [t \in {root} |-> Thread("quicksort", 1, Len(input) + 1, 0)]
    /\ seqResult = <<>>
    /\ seqLog = <<>>
    /\ pcall = [b |-> 0, e |-> 0, ref |-> 0]
    /\ pret = 0
    /\ ub = FALSE

\* a direct call partition(b, e, ref) on a vector, any range and any pivot value
InitPartition ==
    /\ input \in Inputs
    /\ G = 1
    /\ D = 1
    /\ a = input
    /\ phase = "partition"
    /\ \E b \in 1..(Len(input) + 1), e \in 1..(Len(input) + 1), ref \in Values :
          /\ pcall = [b |-> b, e |-> e, ref |-> ref]
          /\ threads = [t \in {root} |-> Thread("partition", b, e, ref)]
    /\ seqResult = <<>>
    /\ seqLog = <<>>
    /\ pret = 0
    /\ ub = FALSE

\* ---------------------------------------------------------------- partition
\* lines 75-78: the empty-range guard, then the cursors just outside the range
PartitionEntry(t) ==
    /\ ~ub
    /\ HasTop(t, "partition", "entry")
    /\ LET f == Top(t) IN
       IF EmptyRange(f.b, f.e)
       THEN /\ threads' = Upd(t, AfterPartition(t, f.b), {}, <<>>)
            /\ pret' = IF Len(threads[t].stack) = 1 THEN f.b ELSE pret
       ELSE /\ threads' = Upd(t, SetTop(threads[t].stack,
                                  [f EXCEPT !.l = f.b - 1, !.r = f.e, !.pc = "scanL"]),
                              {}, <<>>)
            /\ pret' = pret
    /\ UNCHANGED <<a, input, G, D, phase, seqResult, seqLog, pcall, ub>>

\* line 80: do ++l; while (*l < ref);  one iteration
ScanL(t) ==
    /\ ~ub
    /\ HasTop(t, "partition", "scanL")
    /\ LET f == Top(t)
           l2 == f.l + 1
       IN IF l2 \in DOMAIN a
          THEN /\ threads' = Upd(t, SetTop(threads[t].stack,
                                     [f EXCEPT !.l = l2,
                                               !.pc = IF LeftGoesOn(a[l2], f.ref)
                                                      THEN "scanL" ELSE "scanR"]),
                                 {l2}, <<>>)
               /\ ub' = ub
          ELSE /\ threads' = Upd(t, SetTop(threads[t].stack, [f EXCEPT !.l = l2]), {l2}, <<>>)
               /\ ub' = TRUE
    /\ UNCHANGED <<a, input, G, D, phase, seqResult, seqLog, pcall, pret>>

\* line 81: do --r; while (*r > ref);  one iteration
ScanR(t) ==
    /\ ~ub
    /\ HasTop(t, "partition", "scanR")
    /\ LET f == Top(t)
           r2 == f.r - 1
       IN IF r2 \in DOMAIN a
          THEN /\ threads' = Upd(t, SetTop(threads[t].stack,
                                     [f EXCEPT !.r = r2,
                                               !.pc = IF RightGoesOn(a[r2], f.ref)
                                                      THEN "scanR" ELSE "cmp"]),
                                 {r2}, <<>>)
               /\ ub' = ub
          ELSE /\ threads' = Upd(t, SetTop(threads[t].stack, [f EXCEPT !.r = r2]), {r2}, <<>>)
               /\ ub' = TRUE
    /\ UNCHANGED <<a, input, G, D, phase, seqResult, seqLog, pcall, pret>>

\* lines 82-84: return r when the cursors crossed, else exchange and go on
CmpSwap(t) ==
    /\ ~ub
    /\ HasTop(t, "partition", "cmp")
    /\ LET f == Top(t) IN
       IF Crossed(f.l, f.r)
       THEN /\ threads' = Upd(t, AfterPartition(t, SplitOf(f.l, f.r)), {}, <<>>)
            /\ pret' = IF Len(threads[t].stack) = 1 THEN SplitOf(f.l, f.r) ELSE pret
            /\ a' = a
       ELSE /\ threads' = Upd(t, SetTop(threads[t].stack, [f EXCEPT !.pc = "scanL"]),
                              {f.l, f.r}, << <<"swap", f.l, f.r>> >>)
            /\ pret' = pret
            /\ a' = SwapElems(a, f.l, f.r)
    /\ UNCHANGED <<input, G, D, phase, seqResult, seqLog, pcall, ub>>

\* ---------------------------------------------------------------- quicksort
\* lines 90-92: the guard (an empty range returns at once), the pivot read at
\* the midpoint, the call of partition
QsEntry(t) ==
    /\ ~ub
    /\ HasTop(t, "quicksort", "entry")
    /\ LET f == Top(t) IN
       IF f.b < f.e
       THEN threads' = CallPartition(t, f, QsPivotPos(f.b, f.e), "rec1")
       ELSE threads' = Upd(t, ReturnFrom(threads[t].stack), {}, <<>>)
    /\ UNCHANGED <<a, input, G, D, phase, seqResult, seqLog, pcall, pret, ub>>

\* line 93: quicksort(begin, m)
QsRec1(t) ==
    /\ ~ub
    /\ HasTop(t, "quicksort", "rec1")
    /\ LET f == Top(t)
           sub == QsSubranges(f.b, f.m, f.e)[1]
       IN threads' = Upd(t, Append(SetTop(threads[t].stack, [f EXCEPT !.pc = "rec2"]),
                                   Frame("quicksort", sub[1], sub[2], 0)),
                         {}, <<>>)
    /\ UNCHANGED <<a, input, G, D, phase, seqResult, seqLog, pcall, pret, ub>>

\* line 94: quicksort(m + 1, end)
QsRec2(t) ==
    /\ ~ub
    /\ HasTop(t, "quicksort", "rec2")
    /\ LET f == Top(t)
           sub == QsSubranges(f.b, f.m, f.e)[2]
       IN threads' = Upd(t, Append(SetTop(threads[t].stack, [f EXCEPT !.pc = "ret"]),
                                   Frame("quicksort", sub[1], sub[2], 0)),
                         {}, <<>>)
    /\ UNCHANGED <<a, input, G, D, phase, seqResult, seqLog, pcall, pret, ub>>

\* -------------------------------------------------------- parallelQuicksort
\* lines 100-107: the guard, the delegation to quicksort, or pivot and partition
PqsEntry(t) ==
    /\ ~ub
    /\ HasTop(t, "parallelQuicksort", "entry")
    /\ LET f == Top(t) IN
       IF f.b < f.e
       THEN IF ShouldDelegate(f.b, f.e, Granularity(t))
            THEN threads' = Upd(t, Append(SetTop(threads[t].stack, [f EXCEPT !.pc = "ret"]),
                                          Frame("quicksort", f.b, f.e, 0)),
                                {}, <<>>)
            ELSE threads' = CallPartition(t, f, PqsPivotPos(f.b, f.e), "fork")
       ELSE threads' = Upd(t, ReturnFrom(threads[t].stack), {}, <<>>)
    /\ UNCHANGED <<a, input, G, D, phase, seqResult, seqLog, pcall, pret, ub>>

\* lines 108-115: parallel_invoke starts the two lambdas as tasks
Fork(t) ==
    /\ ~ub
    /\ HasTop(t, "parallelQuicksort", "fork")
    /\ LET f == Top(t)
           sub == PqsSubranges(f.b, f.m, f.e)
           me == Upd(t, SetTop(threads[t].stack, [f EXCEPT !.pc = "join"]), {}, <<>>)
       IN threads' = [k \in DOMAIN threads \cup Kids(t) |->
                        IF k = Append(t, 1)
                        THEN Thread("parallelQuicksort", sub[1][1], sub[1][2], 0)
                        ELSE IF k = Append(t, 2)
                        THEN Thread("parallelQuicksort", sub[2][1], sub[2][2], 0)
                        ELSE me[k]]
    /\ UNCHANGED <<a, input, G, D, phase, seqResult, seqLog, pcall, pret, ub>>

\* lines 115-117: parallel_invoke returns, and parallelQuicksort with it
Join(t) ==
    /\ ~ub
    /\ HasTop(t, "parallelQuicksort", "join")
    /\ JoinReady(t)
    /\ threads' = Upd(t, ReturnFrom(threads[t].stack), {}, <<>>)
    /\ UNCHANGED <<a, input, G, D, phase, seqResult, seqLog, pcall, pret, ub>>

\* --------------------------------------------------------------------- main
\* lines 160-164: quicksort returned; sorted = data; parallelQuicksort(...)
StartParallel ==
    /\ ~ub
    /\ phase = "seq"
    /\ Returned(root)
    /\ seqResult' = a
    /\ seqLog' = threads[root].log
    /\ a' = input
    /\ threads' = [t \in {root} |-> Thread("parallelQuicksort", 1, Len(input) + 1, 0)]
    /\ phase' = "par"
    /\ UNCHANGED <<input, G, D, pcall, pret, ub>>

\* line 165: parallelQuicksort returned
Finish ==
    /\ ~ub
    /\ phase = "par"
    /\ Returned(root)
    /\ phase' = "finished"
    /\ UNCHANGED <<a, input, G, D, threads, seqResult, seqLog, pcall, pret, ub>>

\* ------------------------------------------------------------ specifications
DoPartitionEntry == \E t \in DOMAIN threads : PartitionEntry(t)
DoScanL == \E t \in DOMAIN threads : ScanL(t)
DoScanR == \E t \in DOMAIN threads : ScanR(t)
DoCmpSwap == \E t \in DOMAIN threads : CmpSwap(t)
DoQsEntry == \E t \in DOMAIN threads : QsEntry(t)
DoQsRec1 == \E t \in DOMAIN threads : QsRec1(t)
DoQsRec2 == \E t \in DOMAIN threads : QsRec2(t)
DoPqsEntry == \E t \in DOMAIN threads : PqsEntry(t)
DoFork == \E t \in DOMAIN threads : Fork(t)
DoJoin == \E t \in DOMAIN threads : Join(t)

Next ==
    \/ DoPartitionEntry
    \/ DoScanL
    \/ DoScanR
    \/ DoCmpSwap
    \/ DoQsEntry
    \/ DoQsRec1
    \/ DoQsRec2
    \/ DoPqsEntry
    \/ DoFork
    \/ DoJoin
    \/ StartParallel
    \/ Finish

\* main: quicksort on a copy of the data, then parallelQuicksort on another
Spec == Init /\ [][Next]_vars

\* every enabled step of some thread is eventually taken (the TBB workers run
\* every task that was spawned)
FairSpec == Spec /\ WF_vars(Next)

NextPartition ==
    \/ DoPartitionEntry
    \/ DoScanL
    \/ DoScanR
    \/ DoCmpSwap

\* one direct call of partition
PartSpec == InitPartition /\ [][NextPartition]_vars

\* the calling thread keeps running
FairPartSpec == PartSpec /\ WF_vars(NextPartition)

\* ------------------------------------------------------------------ claims
IsSorted(s) == \A i \in 1..(Len(s) - 1) : s[i] <= s[i + 1]

CountOf(s, v) == Cardinality({i \in DOMAIN s : s[i] = v})

SameBag(s, u) == Len(s) = Len(u) /\ \A v \in Values : CountOf(s, v) = CountOf(u, v)

SeqDone == phase \in {"par", "finished"}

Size(b, e) == IF e > b THEN e - b ELSE 0

IsStrictPrefix(t, u) == Len(t) < Len(u) /\ SubSeq(u, 1, Len(t)) = t

\* a task that is running: it has not returned and is not blocked in parallel_invoke
Active(t) == ~Returned(t) /\ ~HasTop(t, "parallelQuicksort", "join")

HasSwap(lg) == \E i \in DOMAIN lg : lg[i][1] = "swap"

\* C1: after quicksort returns, and after parallelQuicksort returns, the
\* vector is non-descending.
C1_OutputSorted ==
    /\ SeqDone => IsSorted(seqResult)
    /\ phase = "finished" => IsSorted(a)

\* C2: in every state the vector holds the same multiset of values as the
\* input, and so does what quicksort and parallelQuicksort leave.
C2_Permutation ==
    /\ SameBag(a, input)
    /\ SeqDone => SameBag(seqResult, input)

C2_Witness ==
    /\ phase = "finished"
    /\ a # input
    /\ seqResult # input
    /\ HasSwap(seqLog)

\* C3: for every granularity >= 1 and every interleaving of the tasks, what
\* parallelQuicksort leaves equals, position by position, what quicksort
\* leaves on the same input.
C3_ParallelEqualsSequential == phase = "finished" => a = seqResult

C3_Witness ==
    /\ phase = "finished"
    /\ Cardinality(DOMAIN threads) >= 5
    /\ a # input

\* the pivot of the direct partition call is the value of an element of its
\* non-empty range
PivotInRange ==
    /\ pcall.b < pcall.e
    /\ \E i \in pcall.b..(pcall.e - 1) : input[i] = pcall.ref

\* C4: when partition(begin, end, pivot), called on a non-empty range with
\* the value of one of its elements, returns m, then begin <= m < end, every
\* element at begin..m is <= pivot and every element at m+1..end-1 is >= pivot.
C4_PartitionPostcondition ==
    (phase = "partition" /\ Returned(root) /\ PivotInRange) =>
        /\ pcall.b <= pret
        /\ pret < pcall.e
        /\ \A i \in pcall.b..pret : a[i] <= pcall.ref
        /\ \A i \in (pret + 1)..(pcall.e - 1) : a[i] >= pcall.ref

C4_Witness ==
    /\ phase = "partition"
    /\ Returned(root)
    /\ PivotInRange
    /\ a # input
    /\ pret > pcall.b
    /\ pret + 1 < pcall.e

\* C5: a parallelQuicksort call that has left parallel_invoke has no task of
\* its call tree still running, and when the top-level call has returned
\* every task has returned.
C5_ForkJoin ==
    /\ \A t \in DOMAIN threads : \A u \in DOMAIN threads :
          (IsStrictPrefix(t, u) /\ ~HasTop(t, "parallelQuicksort", "join"))
              => Returned(u)
    /\ phase = "finished" => \A t \in DOMAIN threads : Returned(t)

C5_Witness ==
    /\ phase = "finished"
    /\ Cardinality(DOMAIN threads) >= 3
    /\ \E t \in DOMAIN threads : Len(t) = 2 /\ threads[t].touched # {}

\* running tasks have pairwise disjoint sets of dereferenced positions
DisjointFootprints ==
    \A t \in DOMAIN threads : \A u \in DOMAIN threads :
        (t # u /\ Active(t) /\ Active(u))
            => threads[t].touched \cap threads[u].touched = {}

\* a step leaves alone the footprint of every task blocked in parallel_invoke
WaitingTouchesNothing ==
    \A t \in DOMAIN threads :
        HasTop(t, "parallelQuicksort", "join") =>
            /\ t \in DOMAIN threads'
            /\ threads'[t].touched = threads[t].touched
            /\ threads'[t].log = threads[t].log

\* C6: two tasks that are running at the same time have dereferenced or
\* exchanged no common position, and a task blocked in parallel_invoke
\* dereferences none.
C6_NoDataRace == []DisjointFootprints /\ [][WaitingTouchesNothing]_vars

C6_Witness ==
    \E t \in DOMAIN threads : \E u \in DOMAIN threads :
        /\ t # u
        /\ Active(t) /\ threads[t].touched # {}
        /\ Active(u) /\ threads[u].touched # {}

BaseCaseUntouched ==
    Len(input) <= 1 =>
        /\ a = input
        /\ ~ub
        /\ DOMAIN threads = {root}
        /\ SeqDone => seqResult = input

\* C7: on an empty or a one-element vector quicksort and parallelQuicksort
\* leave the vector as it was in every state, dereference nothing outside it,
\* parallelQuicksort starts no task, and both calls return.
C7_BaseCases ==
    /\ []BaseCaseUntouched
    /\ (Len(input) <= 1) => <>(phase = "finished")

C7_Witness ==
    /\ Len(input) = 1
    /\ phase = "finished"
    /\ Len(seqLog) = 1
    /\ Len(threads[root].log) = 1

\* C8: on a non-descending input the vector equals the input in every state
\* of both sorts, so every exchange made swaps two equal values.
C8_SortedInputUnchanged ==
    IsSorted(input) =>
        /\ a = input
        /\ SeqDone => seqResult = input

C8_Witness ==
    /\ IsSorted(input)
    /\ phase = "finished"
    /\ HasSwap(seqLog)
    /\ \E t \in DOMAIN threads : HasSwap(threads[t].log)
    /\ \E i \in DOMAIN input : \E j \in DOMAIN input : input[i] # input[j]

\* C9: with a granularity of at least the size of the input,
\* parallelQuicksort starts no task and makes the same partitions and
\* exchanges, in the same order, as quicksort made on that input.
C9_PureDelegation ==
    G >= Len(input) =>
        /\ DOMAIN threads = {root}
        /\ phase = "finished" =>
              /\ threads[root].log = seqLog
              /\ a = seqResult

C9_Witness ==
    /\ G >= Len(input)
    /\ phase = "finished"
    /\ HasSwap(seqLog)
    /\ Len(seqLog) >= 3

\* every quicksort frame is on a smaller range than the quicksort frame that
\* called it, and every task on a smaller range than the task that started it
CallsShrink ==
    /\ \A t \in DOMAIN threads :
          \A i \in 1..(Len(threads[t].stack) - 1) :
             LET f == threads[t].stack[i]
                 g == threads[t].stack[i + 1]
             IN (f.fn = "quicksort" /\ g.fn = "quicksort")
                    => Size(g.b, g.e) < Size(f.b, f.e)
    /\ \A t \in DOMAIN threads :
          t # root =>
             LET p == threads[Pop(t)]
             IN Size(threads[t].b, threads[t].e) < Size(p.b, p.e)

\* C10: every recursive call is on a strictly smaller range than its caller,
\* and under fair scheduling the quicksort call and the parallelQuicksort
\* call of main both return.
C10_Termination == []CallsShrink /\ <>(phase = "finished")

C10_Witness ==
    /\ phase = "finished"
    /\ Len(input) = 3
    /\ Cardinality(DOMAIN threads) >= 5
    /\ \A t \in DOMAIN threads : Returned(t)

Positions(b, e) == b..(e - 1)

\* the frames of the two quicksort calls made by the quicksort frame f, when
\* g is the frame right above f
FirstCallOf(f, g) == f.fn = "quicksort" /\ g.fn = "quicksort" /\ f.pc = "rec2"

SecondCallOf(f, g) == f.fn = "quicksort" /\ g.fn = "quicksort" /\ f.pc = "ret"

\* C11: after partition returned m for [begin, end), the first recursive sort
\* is on the positions begin..m and the second on m+1..end-1, so that the
\* two subranges cover the range.
C11_SubrangesCoverRange ==
    /\ \A t \in DOMAIN threads :
          \A i \in 1..(Len(threads[t].stack) - 1) :
             LET f == threads[t].stack[i]
                 g == threads[t].stack[i + 1]
             IN /\ FirstCallOf(f, g) => Positions(g.b, g.e) = f.b..f.m
                /\ SecondCallOf(f, g) => Positions(g.b, g.e) = (f.m + 1)..(f.e - 1)
    /\ \A t \in DOMAIN threads :
          HasTop(t, "parallelQuicksort", "join") =>
             LET f == Top(t)
                 k1 == threads[Append(t, 1)]
                 k2 == threads[Append(t, 2)]
             IN /\ Positions(k1.b, k1.e) = f.b..f.m
                /\ Positions(k2.b, k2.e) = (f.m + 1)..(f.e - 1)
                /\ Positions(k1.b, k1.e) \cup Positions(k2.b, k2.e) = Positions(f.b, f.e)

\* the positions exchanged by the events of a log
SwappedPositions(lg) == UNION {{lg[i][2], lg[i][3]} : i \in {j \in DOMAIN lg : lg[j][1] = "swap"}}

\* the direct partition call dereferenced and exchanged inside its range only
StaysInRange ==
    PivotInRange =>
        /\ ~ub
        /\ threads[root].touched \subseteq Positions(pcall.b, pcall.e)
        /\ SwappedPositions(threads[root].log) \subseteq Positions(pcall.b, pcall.e)
        /\ \A i \in DOMAIN a : i \notin Positions(pcall.b, pcall.e) => a[i] = input[i]

\* C12: a partition call on a non-empty range with the value of one of its
\* elements as pivot returns, and never dereferences or exchanges a position
\* outside [begin, end).
C12_ScanStaysInRange ==
    /\ []StaysInRange
    /\ PivotInRange => <>Returned(root)

C12_Witness ==
    /\ PivotInRange
    /\ Returned(root)
    /\ Positions(pcall.b, pcall.e) # DOMAIN input
    /\ threads[root].touched = Positions(pcall.b, pcall.e)
    /\ HasSwap(threads[root].log)

\* C13: every partition call of the sorts is on a range with begin < end and
\* gets the value of an element of that range as pivot, and every quicksort
\* and parallelQuicksort call is on a range with begin <= end inside the vector.
C13_EngineCallsValid ==
    \A t \in DOMAIN threads :
       \A i \in DOMAIN threads[t].stack :
          LET f == threads[t].stack[i] IN
          /\ f.fn = "partition" => f.b < f.e
          /\ (f.fn = "partition" /\ f.pc = "entry")
                => \E j \in Positions(f.b, f.e) : j \in DOMAIN a /\ a[j] = f.ref
          /\ f.fn \in {"quicksort", "parallelQuicksort"}
                => (1 <= f.b /\ f.b <= f.e /\ f.e <= Len(a) + 1)

C13_Witness ==
    \E t \in DOMAIN threads :
        /\ t # root
        /\ HasTop(t, "partition", "entry")
        /\ Len(threads[t].stack) >= 4
        /\ a # input

\* the task t was fanned out into two tasks
FannedOut(t) == Kids(t) \cap DOMAIN threads # {}

\* every partition call of the task t was made by quicksort
AllSequential(t) ==
    \A i \in DOMAIN threads[t].stack :
        threads[t].stack[i].fn = "partition"
            => (i > 1 /\ threads[t].stack[i - 1].fn = "quicksort")

\* C14: in a parallelQuicksort call made with granularity G a subrange is
\* fanned out into two tasks exactly when its size is greater than G, at every
\* level of the recursion, and a subrange of size at most G is sorted by
\* quicksort alone.
C14_ThresholdAtEveryLevel ==
    phase \in {"par", "finished"} =>
        \A t \in DOMAIN threads :
           LET sz == Size(threads[t].b, threads[t].e) IN
           /\ FannedOut(t) => sz > G
           /\ (sz > G /\ Returned(t)) => FannedOut(t)
           /\ sz <= G => AllSequential(t)
           /\ sz > G => \A i \in DOMAIN threads[t].stack :
                            threads[t].stack[i].fn # "quicksort"

AllEqual(s) == \A i \in DOMAIN s : \A j \in DOMAIN s : s[i] = s[j]

\* partition has returned its split to the frame at place i of the stack of t
SplitKnown(t, i) ==
    LET f == threads[t].stack[i] IN
    \/ f.pc \in {"rec2", "join"}
    \/ f.fn = "quicksort" /\ f.pc = "ret"
    \/ f.pc \in {"rec1", "fork"} /\ i = Len(threads[t].stack)

AllEqualUntouched ==
    (Len(input) >= 1 /\ AllEqual(input)) =>
        /\ a = input
        /\ ~ub
        /\ SeqDone => seqResult = input
        /\ \A t \in DOMAIN threads :
              \A i \in DOMAIN threads[t].stack :
                 LET f == threads[t].stack[i] IN
                 SplitKnown(t, i) => (f.b <= f.m /\ f.m < f.e)

\* C15: on a non-empty vector of equal elements every partition call of the
\* sorts returns a split inside its range, the vector stays as it was, and
\* quicksort and parallelQuicksort return.
C15_AllEqual ==
    /\ []AllEqualUntouched
    /\ (Len(input) >= 1 /\ AllEqual(input)) => <>(phase = "finished")

C15_Witness ==
    /\ Len(input) >= 3
    /\ AllEqual(input)
    /\ phase = "finished"
    /\ HasSwap(seqLog)
    /\ Cardinality(DOMAIN threads) >= 3
    /\ \E t \in DOMAIN threads : HasSwap(threads[t].log)

\* C16: partition called with begin >= end returns begin in its first step,
\* for any pivot, having dereferenced and exchanged nothing.
C16_EmptyRangeNoOp ==
    (phase = "partition" /\ pcall.b >= pcall.e) =>
        /\ a = input
        /\ ~ub
        /\ threads[root].touched = {}
        /\ threads[root].log = <<>>
        /\ Returned(root) => pret = pcall.b
        /\ ~Returned(root) => HasTop(root, "partition", "entry")

C16_Witness ==
    /\ phase = "partition"
    /\ pcall.b > pcall.e
    /\ Returned(root)
    /\ pret = pcall.b
    /\ \A i \in DOMAIN input : input[i] # pcall.ref

\* the pivot of the direct partition call is greater than every element of
\* its non-empty range
PivotAboveRange ==
    /\ pcall.b < pcall.e
    /\ \A i \in Positions(pcall.b, pcall.e) : input[i] < pcall.ref

\* the left scan of the direct partition call is over
LeftScanOver ==
    \/ ub
    \/ Returned(root)
    \/ Top(root).pc \in {"scanR", "cmp"}

\* C17: a partition call on a non-empty range with a pivot greater than every
\* element of the range (so equal to none) has, once its left scan is over,
\* dereferenced a position outside [begin, end).
C17_AbsentPivotLeavesRange ==
    (phase = "partition" /\ PivotAboveRange /\ LeftScanOver) =>
        \E p \in threads[root].touched : p \notin Positions(pcall.b, pcall.e)

C17_Witness ==
    /\ phase = "partition"
    /\ PivotAboveRange
    /\ ub
    /\ pcall.e \in threads[root].touched
    /\ pcall.e \notin DOMAIN input

====
